---- MODULE Spec2Model ----
(***************************************************************************)
(* FlacFixer (src/FlacFixer.py): the batch driver main(), the per-file     *)
(* rewrite track_work(), the picture archiver save_pictures() /            *)
(* make_save_path() and the padding policy padding_wrapper().              *)
(*                                                                         *)
(* A path of an archived picture is the record [dir, stem, ext]: it stands *)
(* for os.path.join(dir, "cover<stem>.<ext>"), stem 0 being the bare name  *)
(* "cover.<ext>".  A MIME string is the sequence of its parts between "/". *)
(* An optional value (Python None or a value) is a sequence of length 0    *)
(* or 1.                                                                   *)
(***************************************************************************)
EXTENDS Integers, Sequences, FiniteSets, TLC

VARIABLES
    checkonly, silent, keep_id3, keep_pic, pic_save,  \* main()'s flags
    padding_args,      \* (pd_sz, up_thr, lw_thr), KiB
    catalog,           \* which collection of files the input paths hold
    covers,            \* the cover*.* files that exist on disk
    saved_pics,        \* main(): set of checksums already archived
    loc_list,          \* main(): list of used picture save locations
    ind_change_list,   \* main(): list of per-file size deltas
    printed,           \* what print_check / print_results / print_footer printed
    idx,               \* number of entries of work_list taken so far
    pc,                \* position in main() / track_work()
    disk_file,         \* the current file as it is on disk
    flac,              \* the mutagen FLAC object of the current file (in memory)
    fstats_before,     \* optional FlacProps
    fstats_after,      \* optional FlacProps
    track_info,        \* what track_work returned: <<>> (None) or <<before, after>>
    pic_i,             \* save_pictures(): index of the next picture of flac.pictures
    events,            \* history: the steps taken on the current file, in order
    writes,            \* history: every archive write of the run, in order
    first_offer,       \* history: where each checksum first reached save_pictures
    pad_hist           \* history: y.padding and what padding_rules returned for it

vars == <<checkonly, silent, keep_id3, keep_pic, pic_save, padding_args, catalog,
          covers, saved_pics, loc_list, ind_change_list, printed, idx, pc,
          disk_file, flac, fstats_before, fstats_after, track_info, pic_i,
          events, writes, first_offer, pad_hist>>

flagvars == <<checkonly, silent, keep_id3, keep_pic, pic_save, padding_args, catalog>>

----------------------------------------------------------------------------
(* Bounds of the model *)

\* longest work_list main() iterates over
MaxFiles == 3

\* largest threshold (KiB) the padding-policy specification draws
MaxKiB == 2

\* how many times the padding-policy specification re-applies the policy
MaxApply == 2

----------------------------------------------------------------------------
(* Small helpers *)

\* list.count(x)
Count(s, x) == Cardinality({i \in 1..Len(s) : s[i] = x})

----------------------------------------------------------------------------
(* Padding policy *)

\* A slip that adds the configured size to what is there instead of replacing it.
padding_rules_additive(y_padding, args) ==
    IF 1024 * args.low <= y_padding /\ y_padding <= 1024 * args.up
    THEN y_padding
    ELSE y_padding + 1024 * args.size

\* A slip that leaves the band open at its upper end.
padding_rules_open_band(y_padding, args) ==
    IF 1024 * args.low <= y_padding /\ y_padding < 1024 * args.up
    THEN y_padding
    ELSE 1024 * args.size

\* padding_wrapper(padding_args)(y): the callback handed to flac.save
padding_rules(y_padding, args) ==
    IF 1024 * args.low <= y_padding /\ y_padding <= 1024 * args.up
    THEN y_padding
    ELSE 1024 * args.size

\* main()'s defaults pd_sz=8, up_thr=20, lw_thr=4
DefaultPaddingArgs == [size |-> 8, up |-> 20, low |-> 4]

----------------------------------------------------------------------------
(* The file on disk and the codec's view of it *)

\* bytes of one picture block: block header, fixed picture fields, the data
PicBlockSize(p) == 36 + Len(p.data)

RECURSIVE PicBlocksSize(_)
PicBlocksSize(ps) == IF ps = <<>> THEN 0 ELSE PicBlockSize(Head(ps)) + PicBlocksSize(Tail(ps))

RECURSIVE PadBlocksSize(_)
PadBlocksSize(ps) == IF ps = <<>> THEN 0 ELSE 4 + Head(ps) + PadBlocksSize(Tail(ps))

\* os.stat(filename).st_size: ID3v2 header, "fLaC" + STREAMINFO, the other
\* metadata blocks, the audio frames, the ID3v1 trailer
FileSize(f) ==
    (IF f.head_id3 THEN 10 ELSE 0) + 42 + PicBlocksSize(f.pictures)
    + PadBlocksSize(f.padding) + f.audio + (IF f.tail_id3 THEN 128 ELSE 0)

\* mutagen.flac.FLAC(file_path): the metadata blocks as loaded from disk
LoadFlac(f) == [pictures |-> f.pictures, padding |-> f.padding]

\* FlacProps.__init__
FlacProps(fl, f) ==
    [file_size   |-> FileSize(f),
     id3_headers |-> <<>>,
     pic_list    |-> [i \in 1..Len(fl.pictures) |->
                        <<Len(fl.pictures[i].data), fl.pictures[i].width,
                          fl.pictures[i].height>>],
     pad_list    |-> fl.padding]

\* FlacProps.check_id3_header: the list of found header names
Id3Headers(f) ==
    (IF f.head_id3 THEN <<"id3v2">> ELSE <<>>) \o (IF f.tail_id3 THEN <<"id3v1">> ELSE <<>>)

\* fileobj.seek(-128, 2) raises OSError when the file is shorter than 128 bytes
SeekFromEndRaises(f) == FileSize(f) < 128

\* the PaddingInfo.padding mutagen computes for the save: the room of the old
\* metadata region that the blocks to be written (and the new padding block's
\* header) leave free
YPadding(f, fl, delete_id3) ==
    (PicBlocksSize(f.pictures) + PadBlocksSize(f.padding)
     + (IF delete_id3 /\ f.head_id3 THEN 10 ELSE 0))
    - PicBlocksSize(fl.pictures) - 4

\* the file on disk after flac.save(padding=..., deleteid3=...)
SavedFile(f, fl, delete_id3, new_padding) ==
    [f EXCEPT !.pictures = fl.pictures,
              !.padding  = <<new_padding>>,
              !.head_id3 = f.head_id3 /\ ~delete_id3,
              !.tail_id3 = f.tail_id3 /\ ~delete_id3]

----------------------------------------------------------------------------
(* Picture archiver *)

\* get_md5(data): the digest of a byte string, one per content
RECURSIVE get_md5(_)
get_md5(data) == IF data = <<>> THEN 1 ELSE 2 * get_md5(Tail(data)) + Head(data)

\* mime.split('/')[1].replace('jpeg', 'jpg'), 'pic' on IndexError
Extension(mime) ==
    IF Len(mime) >= 2
    THEN (IF mime[2] = "jpeg" THEN "jpg" ELSE mime[2])
    ELSE "pic"

\* os.path.dirname(flac_filename)
Dirname(f) == f.dir

\* os.path.join(location, 'cover{}.{}'.format(count, extension))
FormatCover(location, count, extension) ==
    [dir |-> location, stem |-> count, ext |-> extension]

\* str.replace('cover1.', 'cover.') on a directory name
ReplaceInDir(d) == IF d = "cover1.d" THEN "cover.d" ELSE d

\* str.replace('cover1.', 'cover.') on the joined path
ReplaceCover1(path) ==
    [dir  |-> ReplaceInDir(path.dir),
     stem |-> IF path.stem = 1 THEN 0 ELSE path.stem,
     ext  |-> path.ext]

\* A slip that drops the probe of the file system.
IsFile_never(path, files) == FALSE

\* os.path.isfile(save_path)
IsFile(path, files) == path \in files

\* the while loop of make_save_path
RECURSIVE ProbeLoop(_, _, _, _, _, _)
ProbeLoop(save_path, location, count, extension, ll, files) ==
    IF IsFile(save_path, files)
    THEN ProbeLoop(FormatCover(location, count + 1, extension), location,
                   count + 1, extension, Append(ll, location), files)
    ELSE [save_path |-> save_path, loc_list |-> ll]

\* make_save_path(mime, flac_filename, loc_list): the path and the grown loc_list
make_save_path(mime, f, ll, files) ==
    LET extension == Extension(mime)
        location  == Dirname(f)
        count     == Count(ll, location) + 1
    IN  ProbeLoop(ReplaceCover1(FormatCover(location, count, extension)),
                  location, count, extension, Append(ll, location), files)

----------------------------------------------------------------------------
(* Inputs: the pictures and files the work list is drawn from *)

Picture(data, mime) == [data |-> data, mime |-> mime, width |-> 500, height |-> 500]

J1 == Picture(<<0>>, <<"image", "jpeg">>)
J2 == Picture(<<1>>, <<"image", "jpeg">>)
\* the bytes of J1 under another declared MIME type
G1 == Picture(<<0>>, <<"image", "png">>)
\* a MIME string without "/"
N3 == Picture(<<0, 1>>, <<"png">>)

File(dir, is_flac, head, tail, pictures, padding, audio) ==
    [dir |-> dir, is_flac |-> is_flac, head_id3 |-> head, tail_id3 |-> tail,
     pictures |-> pictures, padding |-> padding, audio |-> audio]

\* a file that is no FLAC container
NotFlac(dir) == File(dir, FALSE, FALSE, FALSE, <<>>, <<>>, 4096)

\* a valid container of 42 bytes: "fLaC" and STREAMINFO, no audio frame
ShortFlac(dir) == File(dir, TRUE, FALSE, FALSE, <<>>, <<>>, 0)

\* files that differ in legacy tags, padding, size and pictures, in one directory
PipelineCatalog ==
    {NotFlac("a"), ShortFlac("a")}
    \cup {File("a", TRUE, id3, id3, pics, pad, 4096) :
            id3 \in BOOLEAN, pics \in {<<>>, <<J1>>, <<J1, J2>>},
            pad \in {<<>>, <<10240>>}}
    \cup {File("a", TRUE, TRUE, FALSE, <<>>, <<>>, 0)}

\* files that differ in directory and pictures
ArchiveCatalog ==
    {NotFlac("a"), ShortFlac("a")}
    \cup {File(dir, TRUE, FALSE, FALSE, pics, <<8192>>, 4096) :
            dir \in {"a", "cover1.d", "cover.d"},
            pics \in {<<J1>>, <<J2>>, <<J1, J1>>, <<J1, J2>>, <<G1, N3>>}}

\* the files the work list is drawn from
Files(name) == IF name = "pipeline" THEN PipelineCatalog ELSE ArchiveCatalog

\* cover files an earlier, unrelated source may have left on disk
LeftOverCovers ==
    {FormatCover("a", 0, "jpg"), FormatCover("a", 1, "jpg"),
     FormatCover("a", 2, "jpg"), FormatCover("cover.d", 0, "jpg")}

\* the thresholds and paddings the padding-policy specification draws
KiBValues == (-1)..MaxKiB
PaddingValues == {1024 * k + d : k \in (-1)..(MaxKiB + 1), d \in {-1, 0, 1}}

----------------------------------------------------------------------------
(* Decisions of track_work and main *)

\* A slip that takes every file for a container.
OpensAsFlac_always(f) == TRUE

\* mutagen.flac.FLAC(file_path) does not raise FLACNoHeaderError
OpensAsFlac(f) == f.is_flac

\* A slip that archives before looking at checkonly.
AfterCheckPc_archive_first(co, has_pics, ps, kp) ==
    IF has_pics /\ ps THEN "archive"
    ELSE IF co THEN "returned"
    ELSE IF has_pics /\ ~kp THEN "clear"
    ELSE "save"

\* A slip that clears the pictures without archiving them.
AfterCheckPc_no_archive(co, has_pics, ps, kp) ==
    IF co THEN "returned"
    ELSE IF has_pics /\ ~kp THEN "clear"
    ELSE "save"

\* where track_work goes after check_id3_header
AfterCheckPc(co, has_pics, ps, kp) ==
    IF co THEN "returned"
    ELSE IF has_pics /\ ps THEN "archive"
    ELSE IF has_pics /\ ~kp THEN "clear"
    ELSE "save"

\* A slip that keeps the pictures of a file whose pictures were archived.
AfterArchivePc_keep(kp) == "save"

\* where track_work goes after save_pictures
AfterArchivePc(kp) == IF ~kp THEN "clear" ELSE "save"

\* A slip that writes every picture it is given.
AlreadySaved_never(checksum, sp) == FALSE

\* save_pictures: checksum in saved_pics
AlreadySaved(checksum, sp) == checksum \in sp

\* fstats_before._id3_headers and not keep_id3
DeleteId3(before, kid3) == before.id3_headers /= <<>> /\ ~kid3

----------------------------------------------------------------------------
(* Initial states *)

NoFile == File("", FALSE, FALSE, FALSE, <<>>, <<>>, 0)

\* main() before its loop: work_list taken, the three collections empty
InitRun ==
    /\ saved_pics = {}
    /\ loc_list = <<>>
    /\ ind_change_list = <<>>
    /\ printed = <<>>
    /\ idx = 0
    /\ pc = "loop"
    /\ disk_file = NoFile
    /\ flac = LoadFlac(NoFile)
    /\ fstats_before = <<>>
    /\ fstats_after = <<>>
    /\ track_info = <<>>
    /\ pic_i = 1
    /\ events = <<>>
    /\ writes = <<>>
    /\ first_offer = {}
    /\ pad_hist = <<>>

\* any flags, the default thresholds, files of one directory
Init ==
    /\ checkonly \in BOOLEAN
    /\ silent \in BOOLEAN
    /\ keep_id3 \in BOOLEAN
    /\ keep_pic \in BOOLEAN
    /\ pic_save \in BOOLEAN
    /\ padding_args = DefaultPaddingArgs
    /\ catalog = "pipeline"
    /\ covers \in {{}, {FormatCover("a", 0, "jpg")}}
    /\ InitRun

\* the flags that matter to the archiver, files of several directories, any
\* left-over cover files
ArchiveInit ==
    /\ checkonly \in BOOLEAN
    /\ silent = FALSE
    /\ keep_id3 = FALSE
    /\ keep_pic \in BOOLEAN
    /\ pic_save \in BOOLEAN
    /\ padding_args = DefaultPaddingArgs
    /\ catalog = "archive"
    /\ covers \in SUBSET LeftOverCovers
    /\ InitRun

----------------------------------------------------------------------------
(* main(): the loop over work_list *)

\* for file_path in work_list: the next entry, and the call of track_work
TakeFile ==
    /\ pc = "loop"
    /\ idx < MaxFiles
    /\ \E f \in Files(catalog) : disk_file' = f
    /\ idx' = idx + 1
    /\ pc' = "open"
    /\ flac' = LoadFlac(NoFile)
    /\ fstats_before' = <<>>
    /\ fstats_after' = <<>>
    /\ track_info' = <<>>
    /\ pic_i' = 1
    /\ events' = <<>>
    /\ pad_hist' = <<>>
    /\ UNCHANGED <<flagvars, covers, saved_pics, loc_list, ind_change_list,
                   printed, writes, first_offer>>

\* what main() prints for the file's track_info: print_check, then print_results
Report(n, co) ==
    << [file |-> n, what |-> "check"] >>
    \o (IF co THEN <<>> ELSE << [file |-> n, what |-> "results"] >>)

\* main() lines 254-261: what follows the return of track_work
MainCollect ==
    /\ pc = "returned"
    /\ pc' = "loop"
    /\ IF track_info = <<>>
       THEN UNCHANGED <<ind_change_list, printed>>
       ELSE /\ ind_change_list' =
                 IF ~checkonly
                 THEN Append(ind_change_list,
                             track_info[2][1].file_size - track_info[1][1].file_size)
                 ELSE ind_change_list
            /\ printed' =
                 IF ~silent THEN printed \o Report(idx, checkonly)
                 ELSE printed
    /\ UNCHANGED <<flagvars, covers, saved_pics, loc_list, idx, disk_file, flac,
                   fstats_before, fstats_after, track_info, pic_i, events,
                   writes, first_offer, pad_hist>>

\* main() lines 263-264: the list is exhausted
Finish ==
    /\ pc = "loop"
    /\ idx >= 1
    /\ pc' = "done"
    /\ printed' = IF ~silent
                  THEN Append(printed, [file |-> 0, what |-> "footer"])
                  ELSE printed
    /\ UNCHANGED <<flagvars, covers, saved_pics, loc_list, ind_change_list, idx,
                   disk_file, flac, fstats_before, fstats_after, track_info,
                   pic_i, events, writes, first_offer, pad_hist>>

----------------------------------------------------------------------------
(* track_work(): one file *)

\* lines 210-213: open the file as a container, or return None
OpenFile ==
    /\ pc = "open"
    /\ IF OpensAsFlac(disk_file)
       THEN /\ flac' = LoadFlac(disk_file)
            /\ events' = Append(events, "open")
            /\ pc' = "snapshot"
       ELSE /\ pc' = "returned"
            /\ UNCHANGED <<flac, events>>
    /\ UNCHANGED <<flagvars, covers, saved_pics, loc_list, ind_change_list,
                   printed, idx, disk_file, fstats_before, fstats_after,
                   track_info, pic_i, writes, first_offer, pad_hist>>

\* line 214: fstats_before = FlacProps(flac, base_path)
SnapshotBefore ==
    /\ pc = "snapshot"
    /\ fstats_before' = <<FlacProps(flac, disk_file)>>
    /\ events' = Append(events, "before")
    /\ pc' = "id3"
    /\ UNCHANGED <<flagvars, covers, saved_pics, loc_list, ind_change_list,
                   printed, idx, disk_file, flac, fstats_after, track_info,
                   pic_i, writes, first_offer, pad_hist>>

\* lines 215-222: check_id3_header, then the way track_work takes; the OSError of
\* the seek is caught nowhere and ends the run
CheckId3Header ==
    /\ pc = "id3"
    /\ IF SeekFromEndRaises(disk_file)
       THEN /\ pc' = "aborted"
            /\ events' = Append(events, "id3_raised")
            /\ UNCHANGED <<fstats_before, track_info>>
       ELSE /\ fstats_before' =
                 <<[fstats_before[1] EXCEPT !.id3_headers = Id3Headers(disk_file)]>>
            /\ events' = Append(events, "id3")
            /\ pc' = AfterCheckPc(checkonly, fstats_before[1].pic_list /= <<>>,
                                  pic_save, keep_pic)
            /\ track_info' = IF pc' = "returned"
                             THEN <<fstats_before', <<>>>>
                             ELSE track_info
    /\ UNCHANGED <<flagvars, covers, saved_pics, loc_list, ind_change_list,
                   printed, idx, disk_file, flac, fstats_after, pic_i, writes,
                   first_offer, pad_hist>>

----------------------------------------------------------------------------
(* save_pictures(): one iteration of "for pic_obj in flac.pictures" per step *)

Offered(fo, checksum, n, i) ==
    IF \E r \in fo : r.sum = checksum
    THEN fo
    ELSE fo \cup {[sum |-> checksum, file |-> n, pic |-> i]}

\* lines 189-190: the checksum is in saved_pics, nothing is done
SkipPicture ==
    /\ pc = "archive"
    /\ pic_i <= Len(flac.pictures)
    /\ AlreadySaved(get_md5(flac.pictures[pic_i].data), saved_pics)
    /\ first_offer' = Offered(first_offer, get_md5(flac.pictures[pic_i].data), idx, pic_i)
    /\ pic_i' = pic_i + 1
    /\ UNCHANGED <<flagvars, covers, saved_pics, loc_list, ind_change_list,
                   printed, idx, pc, disk_file, flac, fstats_before,
                   fstats_after, track_info, events, writes, pad_hist>>

\* lines 192-195: record the checksum, choose the path, write the file
WritePicture ==
    /\ pc = "archive"
    /\ pic_i <= Len(flac.pictures)
    /\ LET pic_obj  == flac.pictures[pic_i]
           checksum == get_md5(pic_obj.data)
           chosen   == make_save_path(pic_obj.mime, disk_file, loc_list, covers)
       IN  /\ ~AlreadySaved(checksum, saved_pics)
           /\ saved_pics' = saved_pics \cup {checksum}
           /\ loc_list' = chosen.loc_list
           /\ covers' = covers \cup {chosen.save_path}
           /\ writes' = Append(writes, [path    |-> chosen.save_path,
                                        sum     |-> checksum,
                                        file    |-> idx,
                                        pic     |-> pic_i,
                                        from    |-> Dirname(disk_file),
                                        existed |-> chosen.save_path \in covers,
                                        had_cover_jpg |->
                                            FormatCover(chosen.save_path.dir, 0, "jpg")
                                                \in covers])
           /\ first_offer' = Offered(first_offer, checksum, idx, pic_i)
    /\ events' = Append(events, "write")
    /\ pic_i' = pic_i + 1
    /\ UNCHANGED <<flagvars, ind_change_list, printed, idx, pc, disk_file, flac,
                   fstats_before, fstats_after, track_info, pad_hist>>

\* lines 192-194 when open(save_path, 'wb') raises (no such directory, no
\* permission, disk full): the exception is caught nowhere and ends the run
WritePictureRaises ==
    /\ pc = "archive"
    /\ pic_i <= Len(flac.pictures)
    /\ LET pic_obj  == flac.pictures[pic_i]
           checksum == get_md5(pic_obj.data)
           chosen   == make_save_path(pic_obj.mime, disk_file, loc_list, covers)
       IN  /\ ~AlreadySaved(checksum, saved_pics)
           /\ saved_pics' = saved_pics \cup {checksum}
           /\ loc_list' = chosen.loc_list
           /\ first_offer' = Offered(first_offer, checksum, idx, pic_i)
    /\ events' = Append(events, "write_raised")
    /\ pc' = "aborted"
    /\ UNCHANGED <<flagvars, covers, ind_change_list, printed, idx, disk_file,
                   flac, fstats_before, fstats_after, track_info, pic_i, writes,
                   pad_hist>>

\* save_pictures returns; line 221
ArchiveDone ==
    /\ pc = "archive"
    /\ pic_i > Len(flac.pictures)
    /\ events' = Append(events, "archived")
    /\ pc' = AfterArchivePc(keep_pic)
    /\ UNCHANGED <<flagvars, covers, saved_pics, loc_list, ind_change_list,
                   printed, idx, disk_file, flac, fstats_before, fstats_after,
                   track_info, pic_i, writes, first_offer, pad_hist>>

----------------------------------------------------------------------------
(* track_work(): the rewrite *)

\* line 222: flac.clear_pictures()
ClearPictures ==
    /\ pc = "clear"
    /\ flac' = [flac EXCEPT !.pictures = <<>>]
    /\ events' = Append(events, "clear")
    /\ pc' = "save"
    /\ UNCHANGED <<flagvars, covers, saved_pics, loc_list, ind_change_list,
                   printed, idx, disk_file, fstats_before, fstats_after,
                   track_info, pic_i, writes, first_offer, pad_hist>>

\* lines 223-226: flac.save(padding=padding_wrapper(padding_args), deleteid3=delete_id3)
Save ==
    /\ pc = "save"
    /\ LET delete_id3  == DeleteId3(fstats_before[1], keep_id3)
           y_padding   == YPadding(disk_file, flac, delete_id3)
           new_padding == padding_rules(y_padding, padding_args)
       IN  /\ disk_file' = SavedFile(disk_file, flac, delete_id3, new_padding)
           /\ pad_hist' = <<y_padding, new_padding>>
    /\ events' = Append(events, "commit")
    /\ pc' = "reload"
    /\ UNCHANGED <<flagvars, covers, saved_pics, loc_list, ind_change_list,
                   printed, idx, flac, fstats_before, fstats_after, track_info,
                   pic_i, writes, first_offer>>

\* line 227: flac.load(flac.filename)
Reload ==
    /\ pc = "reload"
    /\ flac' = LoadFlac(disk_file)
    /\ events' = Append(events, "reload")
    /\ pc' = "after"
    /\ UNCHANGED <<flagvars, covers, saved_pics, loc_list, ind_change_list,
                   printed, idx, disk_file, fstats_before, fstats_after,
                   track_info, pic_i, writes, first_offer, pad_hist>>

\* lines 228-229: fstats_after = FlacProps(flac, base_path); return the pair
SnapshotAfter ==
    /\ pc = "after"
    /\ fstats_after' = <<FlacProps(flac, disk_file)>>
    /\ track_info' = <<fstats_before, fstats_after'>>
    /\ events' = Append(events, "after")
    /\ pc' = "returned"
    /\ UNCHANGED <<flagvars, covers, saved_pics, loc_list, ind_change_list,
                   printed, idx, disk_file, flac, fstats_before, pic_i, writes,
                   first_offer, pad_hist>>

Next ==
    \/ TakeFile
    \/ OpenFile
    \/ SnapshotBefore
    \/ CheckId3Header
    \/ SkipPicture
    \/ WritePicture
    \/ WritePictureRaises
    \/ ArchiveDone
    \/ ClearPictures
    \/ Save
    \/ Reload
    \/ SnapshotAfter
    \/ MainCollect
    \/ Finish

\* a run of main() over files of one directory, with any flags
Spec == Init /\ [][Next]_vars

\* a run of main() over files of several directories with left-over covers
ArchiveSpec == ArchiveInit /\ [][Next]_vars

----------------------------------------------------------------------------
(* The padding policy on its own: any thresholds, any current padding *)

PolicyInit ==
    /\ checkonly = FALSE
    /\ silent = FALSE
    /\ keep_id3 = FALSE
    /\ keep_pic = FALSE
    /\ pic_save = FALSE
    /\ padding_args \in [size : KiBValues, up : KiBValues, low : KiBValues]
    /\ catalog = "pipeline"
    /\ covers = {}
    /\ saved_pics = {}
    /\ loc_list = <<>>
    /\ ind_change_list = <<>>
    /\ printed = <<>>
    /\ idx = 0
    /\ pc = "policy"
    /\ disk_file = NoFile
    /\ flac = LoadFlac(NoFile)
    /\ fstats_before = <<>>
    /\ fstats_after = <<>>
    /\ track_info = <<>>
    /\ pic_i = 1
    /\ events = <<>>
    /\ writes = <<>>
    /\ first_offer = {}
    /\ \E p \in PaddingValues : pad_hist = <<p>>

\* the codec calls the policy on the padding the previous call returned
ApplyPolicy ==
    /\ pc = "policy"
    /\ Len(pad_hist) <= MaxApply
    /\ pad_hist' = Append(pad_hist, padding_rules(pad_hist[Len(pad_hist)], padding_args))
    /\ UNCHANGED <<flagvars, covers, saved_pics, loc_list, ind_change_list,
                   printed, idx, pc, disk_file, flac, fstats_before,
                   fstats_after, track_info, pic_i, events, writes, first_offer>>

PolicyNext == ApplyPolicy

PolicySpec == PolicyInit /\ [][PolicyNext]_vars

----------------------------------------------------------------------------
(* Properties *)

InBand(p, args) == 1024 * args.low <= p /\ p <= 1024 * args.up

\* C1: for every current padding p and every (target, upper, lower), the policy
\* returns p when lower*1024 <= p <= upper*1024, both ends included, and exactly
\* target*1024 otherwise; never a third value.
PolicyContract ==
    Len(pad_hist) >= 2 =>
        pad_hist[2] = IF InBand(pad_hist[1], padding_args)
                      THEN pad_hist[1]
                      ELSE 1024 * padding_args.size

\* C1 witness: a padding that sits exactly on the upper end of a non-empty band
\* was returned as found, the target being another value.
PolicyContractWitness ==
    /\ pc = "policy"
    /\ Len(pad_hist) >= 2
    /\ padding_args.low < padding_args.up
    /\ pad_hist[1] = 1024 * padding_args.up
    /\ padding_args.size /= padding_args.up
    /\ pad_hist[2] = pad_hist[1]

\* C10: whatever the thresholds, a value the policy has returned is returned
\* unchanged by every further application.
PolicyIdempotent ==
    \A i \in 2..(Len(pad_hist) - 1) : pad_hist[i + 1] = pad_hist[i]

\* C10 witness: with lower > upper and a target outside the band, the policy has
\* changed the padding once and then been applied again.
PolicyIdempotentWitness ==
    /\ pc = "policy"
    /\ Len(pad_hist) = 3
    /\ padding_args.low > padding_args.up
    /\ pad_hist[2] /= pad_hist[1]
    /\ pad_hist[3] = pad_hist[2]

WritesOf(checksum) == {i \in 1..Len(writes) : writes[i].sum = checksum}

\* C2: with archiving enabled, each picture content (by checksum) is written once,
\* where it first reached the archiver; no later picture of the same content, in
\* the same file, the same directory or another one, is written.  A content whose
\* write raised has no write, and the run has ended there.
DedupWritesOnce ==
    /\ \A r \in first_offer :
          \/ /\ Cardinality(WritesOf(r.sum)) = 1
             /\ \A i \in WritesOf(r.sum) :
                   writes[i].file = r.file /\ writes[i].pic = r.pic
          \/ /\ WritesOf(r.sum) = {}
             /\ pc = "aborted"
             /\ r.file = idx
             /\ r.pic = pic_i
    /\ \A i \in 1..Len(writes) : \E r \in first_offer : r.sum = writes[i].sum
    /\ saved_pics = {r.sum : r \in first_offer}

\* C2 witness: the first picture of the current file has been through the
\* archiver, and its content was written by an earlier file of another directory.
DedupWitness ==
    /\ pc = "archive"
    /\ pic_i = 2
    /\ \E i \in 1..Len(writes) :
          /\ writes[i].sum = get_md5(flac.pictures[1].data)
          /\ writes[i].file < idx
          /\ writes[i].from /= Dirname(disk_file)

\* C3: no archive write goes to a path that names an existing file, left over or
\* written earlier in the run; so a jpeg written into a directory that holds
\* cover.jpg is named cover2.jpg or later.
NeverOverwrites ==
    \A i \in 1..Len(writes) :
        /\ ~writes[i].existed
        /\ \A j \in 1..(i - 1) : writes[j].path /= writes[i].path
        /\ (writes[i].had_cover_jpg /\ writes[i].path.ext = "jpg")
              => writes[i].path.stem >= 2

\* C3 witness: the first picture archived in the run is a jpeg, its directory held
\* cover.jpg, and it was written under a numbered name.
NeverOverwritesWitness ==
    /\ Len(writes) >= 1
    /\ writes[1].file = 1
    /\ writes[1].pic = 1
    /\ writes[1].had_cover_jpg
    /\ writes[1].path.ext = "jpg"
    /\ writes[1].path.dir = writes[1].from
    /\ writes[1].path.stem >= 2

\* C4: in check-only mode nothing is written or changed, whatever the other
\* flags: no picture archived, none cleared, no commit, the archiver's state and
\* the list of size deltas stay empty, the file on disk stays as found, and the
\* pair returned has no "after" snapshot.
CheckOnlyChangesNothing ==
    checkonly =>
        /\ writes = <<>>
        /\ saved_pics = {}
        /\ loc_list = <<>>
        /\ first_offer = {}
        /\ ind_change_list = <<>>
        /\ fstats_after = <<>>
        /\ disk_file \in Files(catalog) \cup {NoFile}
        /\ pc \notin {"archive", "clear", "save", "reload", "after"}
        /\ \A i \in 1..Len(events) : events[i] \in {"open", "before", "id3", "id3_raised"}
        /\ (fstats_before /= <<>> => flac.pictures = disk_file.pictures)
        /\ (pc = "returned" /\ track_info /= <<>>) => track_info[2] = <<>>

\* C4 witness: check-only with save-pictures-to-disk, and the second file of the
\* run, which has pictures, has been returned.
CheckOnlyWitness ==
    /\ checkonly
    /\ pic_save
    /\ idx = 2
    /\ pc = "returned"
    /\ track_info /= <<>>
    /\ Len(track_info[1][1].pic_list) = 2

\* C5: the legacy-tag probe of a container shorter than 128 bytes does not raise;
\* processing goes on to the check-only report or the rewrite.
ShortFileProbeDoesNotRaise ==
    (fstats_before /= <<>> /\ FileSize(disk_file) < 128 /\ pc /= "id3")
        => ("id3_raised" \notin {events[i] : i \in 1..Len(events)} /\ pc /= "aborted")

\* C6: a file that is no container ends as not applicable: no snapshot, nothing
\* archived, no commit, track_work returns None, and main() goes on to the next
\* entry with the archiver's state, the size deltas and the output untouched.
NotApplicableIsSkipped ==
    /\ [](~disk_file.is_flac =>
            /\ pc \in {"open", "returned", "loop", "done"}
            /\ events = <<>>
            /\ fstats_before = <<>>
            /\ fstats_after = <<>>
            /\ track_info = <<>>)
    /\ [][(~disk_file.is_flac /\ pc \in {"open", "returned"}) =>
            /\ pc' = IF pc = "open" THEN "returned" ELSE "loop"
            /\ UNCHANGED <<covers, saved_pics, loc_list, writes, first_offer,
                           ind_change_list, printed, idx, disk_file>>]_vars

\* C6 witness: the second entry of the work list was no container and main() is
\* back at its loop, the first file's delta being the only one recorded.
NotApplicableWitness ==
    /\ pc = "loop"
    /\ idx = 2
    /\ ~disk_file.is_flac
    /\ Len(ind_change_list) = 1
    /\ Len(printed) = 2

HasEvent(e) == \E i \in 1..Len(events) : events[i] = e

\* C7: after a rewrite, without keep-pictures the "after" snapshot has no picture
\* and every picture block was cleared before the commit; with keep-pictures
\* nothing is cleared and "after" lists the pictures of "before" in the same
\* order, archiving or not.
PicturesAfterRewrite ==
    (pc = "returned" /\ track_info /= <<>> /\ ~checkonly) =>
        LET before == track_info[1][1]
            after  == track_info[2][1]
        IN  IF ~keep_pic
            THEN /\ after.pic_list = <<>>
                 /\ disk_file.pictures = <<>>
                 /\ before.pic_list /= <<>> => HasEvent("clear")
            ELSE /\ after.pic_list = before.pic_list
                 /\ ~HasEvent("clear")

\* C7 witness: a file with two pictures was rewritten with archiving and without
\* keep-pictures, and none is left.
PicturesAfterRewriteWitness ==
    /\ pc = "returned"
    /\ track_info /= <<>>
    /\ ~checkonly
    /\ ~keep_pic
    /\ pic_save
    /\ Len(track_info[1][1].pic_list) = 2
    /\ track_info[2][1].pic_list = <<>>

\* the steps of a rewrite other than the archive writes, in the order of the code
RewriteSteps(has_pics) ==
    <<"open", "before", "id3">>
    \o (IF has_pics /\ pic_save THEN <<"archived">> ELSE <<>>)
    \o (IF has_pics /\ ~keep_pic THEN <<"clear">> ELSE <<>>)
    \o <<"commit", "reload", "after">>

IsStep(e) == e /= "write"

\* C8: a rewrite goes before-snapshot, archive, clear, one commit, reload,
\* after-snapshot; every archive write of the file, and the archiver's pass over
\* all its pictures, comes before the clearing and the commit; a failure raised
\* while archiving leaves the file uncommitted, its pictures still embedded.
RewriteOrder ==
    /\ (pc = "returned" /\ track_info /= <<>> /\ ~checkonly) =>
          SelectSeq(events, IsStep) = RewriteSteps(track_info[1][1].pic_list /= <<>>)
    /\ \A i \in 1..Len(events) : \A j \in (i + 1)..Len(events) :
          events[j] = "write" => events[i] \in {"open", "before", "id3", "write"}
    /\ Count(events, "commit") <= 1
    /\ (fstats_before /= <<>> /\ fstats_before[1].pic_list /= <<>> /\ pic_save
        /\ pc \in {"clear", "save", "reload", "after", "returned"} /\ ~checkonly)
          => (HasEvent("archived") /\ pic_i = Len(fstats_before[1].pic_list) + 1)
    /\ (pc = "aborted" /\ HasEvent("write_raised")) =>
          /\ ~HasEvent("commit")
          /\ ~HasEvent("clear")
          /\ disk_file \in Files(catalog)
          /\ disk_file.pictures /= <<>>
          /\ flac.pictures = disk_file.pictures

\* C8 witness: a file with two pictures was archived (two writes), cleared,
\* committed once, reloaded and snapshotted.
RewriteOrderWitness ==
    /\ pc = "returned"
    /\ events = <<"open", "before", "id3", "write", "write", "archived", "clear",
                  "commit", "reload", "after">>

\* the suffix a cover name shows: cover.<ext> counts as 1
Suffix(path) == IF path.stem = 0 THEN 1 ELSE path.stem

WritesInto(d) == {i \in 1..Len(writes) : writes[i].path.dir = d}
WritesFrom(d) == {i \in 1..Len(writes) : writes[i].from = d}

\* C9: one counter per destination directory: with no cover file left over, the
\* k-th picture written into a directory is cover.<ext> for k = 1 and
\* cover<k>.<ext> for k >= 2, whatever was written elsewhere; the entries recorded
\* for a directory equal the suffix of the last name chosen for it; the suffixes
\* chosen for a directory increase strictly.
CoverNamesFollowCounter ==
    /\ (covers = {writes[i].path : i \in 1..Len(writes)}) =>
          \A i \in 1..Len(writes) :
              /\ Suffix(writes[i].path)
                    = Cardinality({j \in WritesInto(writes[i].path.dir) : j <= i})
              /\ writes[i].path.stem /= 1
    /\ \A d \in {writes[i].from : i \in 1..Len(writes)} :
          pc /= "aborted" =>
              \E i \in WritesFrom(d) :
                  /\ \A j \in WritesFrom(d) : j <= i
                  /\ Count(loc_list, d) = Suffix(writes[i].path)
    /\ \A i, j \in 1..Len(writes) :
          (i < j /\ writes[i].from = writes[j].from)
              => Suffix(writes[i].path) < Suffix(writes[j].path)

====
